---- MODULE Spec2Model ----
(***************************************************************************)
(* Model of Lecture-1-What-is-LLM/simpleLLM.py: the SequenceLLM predictor. *)
(* Text is a sequence of one-character strings; a word is a sequence of    *)
(* characters; the Sequence is a sequence of words; a context is a tuple   *)
(* of words; a Phrase Map is a function from contexts to candidate lists.  *)
(***************************************************************************)
EXTENDS Integers, Sequences, FiniteSets, TLC

VARIABLES
    self_training_data,  \* self.training_data, set by the constructor
    history_size,    \* self.history_size, set by the constructor
    pc,              \* position of the caller / of generate_text
    starting_text,   \* argument of the running call
    max_length,      \* argument of the running call
    sequence,        \* local list of words
    steps,           \* iterations of the for loop begun so far
    windows,         \* the contexts looked up by the latest iteration, in order
    branch,          \* which branch the latest iteration took
    notices,         \* number of "I'm stuck" lines printed by the call
    output           \* the returned string

vars == <<self_training_data, history_size, pc, starting_text, max_length,
          sequence, steps, windows, branch, notices, output>>

----------------------------------------------------------------------------
(* Bounds of the model. *)
MaxHistory == 3
MaxSteps == 3
MaxPrefix == 1
MaxWords == 2

----------------------------------------------------------------------------
(* 1. The "training data" (simpleLLM.py lines 10-38), literally. *)
training_data ==
    (<<<<"k","i","t","n","e">>, <<"a","a","d","m","i">>>>
        :> <<<<"t","h","e","?">>>>)
    @@ (<<<<"k","i","t","n","e">>, <<"a","a","d","m","i">>, <<"t","h","e","?">>>>
        :> <<<<"S","a","r","d","a","r">>, <<"d","o">>, <<"t","h","e",".">>>>)
    @@ (<<<<"e","k">>, <<"c","h","u","t","k","i">>, <<"s","i","n","d","o","o","r">>>>
        :> <<<<"k","i">>>>)
    @@ (<<<<"s","i","n","d","o","o","r">>, <<"k","i">>, <<"k","e","e","m","a","t">>>>
        :> <<<<"t","u","m">>, <<"k","y","a">>, <<"j","a","a","n","o">>>>)
    @@ (<<<<"t","u","m">>, <<"k","y","a">>, <<"j","a","a","n","o">>>>
        :> <<<<"R","a","m","e","s","h">>, <<"B","a","b","u",".">>>>)
    @@ (<<<<"b","a","d","e">>, <<"b","a","d","e">>, <<"d","e","s","h","o","n">>>>
        :> <<<<"m","e","i","n">>>>)
    @@ (<<<<"d","e","s","h","o","n">>, <<"m","e","i","n">>, <<"a","i","s","i">>>>
        :> <<<<"c","h","o","t","i">>>>)
    @@ (<<<<"a","i","s","i">>, <<"c","h","o","t","i">>, <<"c","h","o","t","i">>>>
        :> <<<<"b","a","a","t","e","i","n">>>>)
    @@ (<<<<"c","h","o","t","i">>, <<"c","h","o","t","i">>, <<"b","a","a","t","e","i","n">>>>
        :> <<<<"h","o","t","i">>, <<"r","e","h","t","i">>, <<"h","a","i">>, <<"S","e","n","o","r","i","t","a",".">>>>)
    @@ (<<<<"a","l","l">>, <<"i","z","z">>>>
        :> <<<<"w","e","l","l","!">>>>)
    @@ (<<<<"d","o","s","t">>, <<"f","a","i","l">>>>
        :> <<<<"h","o">>>>)
    @@ (<<<<"d","o","s","t">>, <<"f","a","i","l">>, <<"h","o">>>>
        :> <<<<"j","a","y","e">>>>)
    @@ (<<<<"j","a","y","e">>, <<"t","o","h">>>>
        :> <<<<"d","u","k","h">>>>)
    @@ (<<<<"d","u","k","h">>, <<"h","o","t","a">>>>
        :> <<<<"h","a","i",".">>>>)
    @@ (<<<<"p","a","n","i">>, <<"p","u","r","i">>>>
        :> <<<<"k","h","a","n","a">>>>)
    @@ (<<<<"c","h","a","i">>, <<"g","a","r","a","m">>>>
        :> <<<<"h","a","i">>>>)
    @@ (<<<<"m","e","r","a">>, <<"n","a","a","m">>>>
        :> <<<<"A","m","i","t">>, <<"R","o","h","a","n">>>>)
    @@ (<<<<"m","e","r","a">>, <<"n","a","a","m">>, <<"h","a","i">>>>
        :> <<<<"A","m","i","t">>, <<"R","o","h","a","n">>>>)

(* A second Phrase Map handed to the constructor (line 53 takes any map):  *)
(* it has 1-word keys, so the fallback branch of lines 83-86 can append.   *)
single_word_data ==
    (<<<<"c","h","a","i">>, <<"g","a","r","a","m">>>>
        :> <<<<"h","a","i">>>>)
    @@ (<<<<"h","a","i">>>>
        :> <<<<"h","a","i">>, <<"n","a">>>>)
    @@ (<<<<"g","a","r","a","m">>>>
        :> <<<<"c","h","a","i">>>>)

PhraseMaps == {training_data, single_word_data}

----------------------------------------------------------------------------
(* Strings: str.lower, str.replace, str.split, str.join.                   *)

UpperCase == <<"A","B","C","D","E","F","G","H","I","J","K","L","M",
               "N","O","P","Q","R","S","T","U","V","W","X","Y","Z">>
LowerCase == <<"a","b","c","d","e","f","g","h","i","j","k","l","m",
               "n","o","p","q","r","s","t","u","v","w","x","y","z">>

Whitespace == {" ", "\t", "\n"}

LowerChar(c) ==
    IF \E i \in 1..Len(UpperCase) : UpperCase[i] = c
    THEN LowerCase[CHOOSE i \in 1..Len(UpperCase) : UpperCase[i] = c]
    ELSE c

\* faulty variant: the text is not lowercased
Lower_Identity(s) == s

\* s.lower()
Lower(s) == [i \in 1..Len(s) |-> LowerChar(s[i])]

\* s.replace(old, '') for a one-character old
Replace(s, old) == SelectSeq(s, LAMBDA c : c # old)

RECURSIVE SplitScan(_, _, _, _)
SplitScan(s, i, cur, acc) ==
    IF i > Len(s)
    THEN IF cur = <<>> THEN acc ELSE Append(acc, cur)
    ELSE IF s[i] \in Whitespace
         THEN SplitScan(s, i + 1, <<>>,
                        IF cur = <<>> THEN acc ELSE Append(acc, cur))
         ELSE SplitScan(s, i + 1, Append(cur, s[i]), acc)

\* s.split(): the maximal runs of non-whitespace characters
Split(s) == SplitScan(s, 1, <<>>, <<>>)

RECURSIVE Join(_)
\* " ".join(words)
Join(words) ==
    IF Len(words) = 0 THEN <<>>
    ELSE IF Len(words) = 1 THEN words[1]
    ELSE words[1] \o <<" ">> \o Join(Tail(words))

\* faulty variant: only '.' is removed
Preprocess_KeepsQuestionMark(text) == Split(Replace(Lower(text), "."))

\* line 62
Preprocess(text) == Split(Replace(Replace(Lower(text), "."), "?"))

\* seq[-n:] for n >= 1
LastN(seq, n) ==
    IF Len(seq) <= n THEN seq ELSE SubSeq(seq, Len(seq) - n + 1, Len(seq))

\* faulty variant: sequence[:self.history_size], the leading words
Context_Leading(seq, h) ==
    IF Len(seq) <= h THEN seq ELSE SubSeq(seq, 1, h)

\* faulty variant: one word too few, sequence[-(self.history_size - 1):]
Context_OffByOne(seq, h) == IF h = 1 THEN seq ELSE LastN(seq, h - 1)

\* line 68: tuple(sequence[-self.history_size:])
Context(seq, h) == LastN(seq, h)

\* faulty variant: the fallback keeps two words, sequence[-2:]
FallbackContext_TwoWords(seq) == LastN(seq, 2)

\* line 83: tuple(sequence[-1:])
FallbackContext(seq) == LastN(seq, 1)

\* lines 71, 84: context in self.training_data
Known(td, ctx) == ctx \in DOMAIN td

\* faulty variant: the chosen word is lowercased before it is appended
Choice_Lowercased(words) == {Lower(words[i]) : i \in 1..Len(words)}

\* random.choice(words): the words it can return
Choice(words) == {words[i] : i \in 1..Len(words)}

----------------------------------------------------------------------------
(* The starting texts and step bounds the calls are made with.             *)

\* lines 106, 114, 122
Kitne_aadmi == <<"K","i","t","n","e"," ","a","a","d","m","i">>
Bade_bade_deshon_mein ==
    <<"B","a","d","e"," ","b","a","d","e"," ","d","e","s","h","o","n"," ",
      "m","e","i","n">>
chai == <<"c","h","a","i">>
DemoTexts == {Kitne_aadmi, Bade_bade_deshon_mein, chai}

\* lines 109, 117, 125
DemoLength1 == 5
DemoLength2 == 10
DemoLengths == {DemoLength1, DemoLength2}

\* empty, blank and punctuation-only texts; mixed case, tabs, inner dots
EdgeTexts ==
    { <<>>, <<" ">>, <<".">>, <<"?">>, <<"."," ","?">>, <<"A",".","b">>,
      <<" ","C","h","a","i","\t","G","a","r","a","m","."," "," ">>,
      <<"M","E","R","A","\n","n","a","a","m","?">> }

SeqsUpTo(S, n) == UNION { [1..m -> S] : m \in 0..n }

PrefixWords == { <<"x">>, <<"c","h","a","i">> }
VocabWords == { <<"D","o","s","t">>, <<"f","a","i","l",".">>, <<"h","o">>,
                <<"h","a","i">>, <<"?">> }

AllKeys == UNION { DOMAIN td : td \in PhraseMaps }

\* every key as the user would type it, after a prefix of other words
KeyTexts == { Join(p \o k) : p \in SeqsUpTo(PrefixWords, MaxPrefix), k \in AllKeys }
VocabTexts == { Join(ws) : ws \in SeqsUpTo(VocabWords, MaxWords) }

StartingTexts == DemoTexts \cup EdgeTexts \cup KeyTexts \cup VocabTexts
MaxLengths == (0..MaxSteps) \cup DemoLengths

----------------------------------------------------------------------------
(* The program.                                                            *)

Init ==
    /\ self_training_data \in PhraseMaps
    /\ history_size \in 1..MaxHistory
    /\ pc = "idle"
    /\ starting_text = <<>>
    /\ max_length = 0
    /\ sequence = <<>>
    /\ steps = 0
    /\ windows = <<>>
    /\ branch = "none"
    /\ notices = 0
    /\ output = <<>>

\* lines 57-62: the call and the preprocessing of its text
generate_text(text, n) ==
    /\ pc = "idle"
    /\ pc' = "loop"
    /\ starting_text' = text
    /\ max_length' = n
    /\ sequence' = Preprocess(text)
    /\ steps' = 0
    /\ windows' = <<>>
    /\ branch' = "none"
    /\ notices' = 0
    /\ output' = <<>>
    /\ UNCHANGED <<self_training_data, history_size>>

Call == \E text \in StartingTexts, n \in MaxLengths : generate_text(text, n)

\* faulty variant: the chosen word is inserted in front, sequence.insert(0, ..)
PredictFromHistory_Prepends ==
    /\ pc = "loop"
    /\ steps < max_length
    /\ LET context == LastN(sequence, history_size) IN
       /\ context \in DOMAIN self_training_data
       /\ windows' = <<context>>
       /\ \E i \in 1..Len(self_training_data[context]) :
             sequence' = <<self_training_data[context][i]>> \o sequence
    /\ pc' = "loop"
    /\ steps' = steps + 1
    /\ branch' = "history"
    /\ UNCHANGED <<self_training_data, history_size, starting_text,
                   max_length, notices, output>>

\* lines 65-79: an iteration whose history context is a key
PredictFromHistory ==
    /\ pc = "loop"
    /\ steps < max_length
    /\ LET context == Context(sequence, history_size) IN
       /\ Known(self_training_data, context)
       /\ windows' = <<context>>
       /\ LET possible_next_words == self_training_data[context] IN
          IF possible_next_words = <<>>
          THEN \* random.choice raises IndexError on an empty list
               /\ pc' = "raised"
               /\ sequence' = sequence
          ELSE \E next_word \in Choice(possible_next_words) :
                /\ sequence' = Append(sequence, next_word)
                /\ pc' = "loop"
    /\ steps' = steps + 1
    /\ branch' = "history"
    /\ UNCHANGED <<self_training_data, history_size, starting_text,
                   max_length, notices, output>>

\* lines 65-71, 80-86: the history context misses, the last word is a key
PredictFromLastWord ==
    /\ pc = "loop"
    /\ steps < max_length
    /\ LET context == Context(sequence, history_size)
           fallback == FallbackContext(sequence) IN
       /\ ~Known(self_training_data, context)
       /\ Known(self_training_data, fallback)
       /\ windows' = <<context, fallback>>
       /\ IF self_training_data[fallback] = <<>>
          THEN /\ pc' = "raised"
               /\ sequence' = sequence
          ELSE \E next_word \in Choice(self_training_data[fallback]) :
                /\ sequence' = Append(sequence, next_word)
                /\ pc' = "loop"
    /\ steps' = steps + 1
    /\ branch' = "fallback"
    /\ UNCHANGED <<self_training_data, history_size, starting_text,
                   max_length, notices, output>>

\* faulty variant: an exception instead of the notice
Stuck_Raises ==
    /\ pc = "loop"
    /\ steps < max_length
    /\ LET context == LastN(sequence, history_size)
           fallback == LastN(sequence, 1) IN
       /\ context \notin DOMAIN self_training_data
       /\ fallback \notin DOMAIN self_training_data
       /\ windows' = <<context, fallback>>
    /\ pc' = "raised"
    /\ steps' = steps + 1
    /\ branch' = "stuck"
    /\ UNCHANGED <<self_training_data, history_size, starting_text,
                   max_length, sequence, notices, output>>

\* faulty variant: the break without the print
Stuck_Silent ==
    /\ pc = "loop"
    /\ steps < max_length
    /\ LET context == LastN(sequence, history_size)
           fallback == LastN(sequence, 1) IN
       /\ context \notin DOMAIN self_training_data
       /\ fallback \notin DOMAIN self_training_data
       /\ windows' = <<context, fallback>>
    /\ pc' = "break"
    /\ steps' = steps + 1
    /\ branch' = "stuck"
    /\ UNCHANGED <<self_training_data, history_size, starting_text,
                   max_length, sequence, notices, output>>

\* faulty variant: the print without the break
Stuck_Continues ==
    /\ pc = "loop"
    /\ steps < max_length
    /\ LET context == LastN(sequence, history_size)
           fallback == LastN(sequence, 1) IN
       /\ context \notin DOMAIN self_training_data
       /\ fallback \notin DOMAIN self_training_data
       /\ windows' = <<context, fallback>>
    /\ notices' = notices + 1
    /\ pc' = "loop"
    /\ steps' = steps + 1
    /\ branch' = "stuck"
    /\ UNCHANGED <<self_training_data, history_size, starting_text,
                   max_length, sequence, output>>

\* lines 65-71, 80-84, 87-90: both lookups miss; print the notice and break
Stuck ==
    /\ pc = "loop"
    /\ steps < max_length
    /\ LET context == Context(sequence, history_size)
           fallback == FallbackContext(sequence) IN
       /\ ~Known(self_training_data, context)
       /\ ~Known(self_training_data, fallback)
       /\ windows' = <<context, fallback>>
    /\ notices' = notices + 1
    /\ pc' = "break"
    /\ steps' = steps + 1
    /\ branch' = "stuck"
    /\ UNCHANGED <<self_training_data, history_size, starting_text,
                   max_length, sequence, output>>

\* line 93, reached when range(max_length) is exhausted or after the break
Return ==
    /\ \/ pc = "loop" /\ steps >= max_length
       \/ pc = "break"
    /\ output' = Join(sequence)
    /\ pc' = "returned"
    /\ UNCHANGED <<self_training_data, history_size, starting_text,
                   max_length, sequence, steps, windows, branch, notices>>

\* lines 110-114, 118-122: the caller prints the result and goes on to its
\* next call; the Sequence of the finished call is gone
NextCall ==
    /\ pc = "returned"
    /\ pc' = "idle"
    /\ starting_text' = <<>>
    /\ max_length' = 0
    /\ sequence' = <<>>
    /\ steps' = 0
    /\ windows' = <<>>
    /\ branch' = "none"
    /\ notices' = 0
    /\ output' = <<>>
    /\ UNCHANGED <<self_training_data, history_size>>

Next ==
    \/ Call
    \/ PredictFromHistory
    \/ PredictFromLastWord
    \/ Stuck
    \/ Return
    \/ NextCall

Spec == Init /\ [][Next]_vars


----------------------------------------------------------------------------
(* Vocabulary of the properties.                                           *)

Literal == self_training_data = training_data
InCall == pc \in {"loop", "break", "returned", "raised"}
Min(a, b) == IF a <= b THEN a ELSE b

\* the last n words of seq, for 0 <= n <= Len(seq)
Trail(seq, n) == SubSeq(seq, Len(seq) - n + 1, Len(seq))

\* the words the call started from, and the number appended since
Initial == Preprocess(starting_text)
Appended == Len(sequence) - Len(Initial)

IsPrefix(a, b) == Len(a) <= Len(b) /\ SubSeq(b, 1, Len(a)) = a

kitne == <<"k","i","t","n","e">>
aadmi == <<"a","a","d","m","i">>
the_q == <<"t","h","e","?">>
bade == <<"b","a","d","e">>
deshon == <<"d","e","s","h","o","n">>
mein == <<"m","e","i","n">>

TypeOK ==
    /\ self_training_data \in PhraseMaps
    /\ history_size \in 1..MaxHistory
    /\ pc \in {"idle", "loop", "break", "returned", "raised"}
    /\ starting_text \in StartingTexts
    /\ max_length \in MaxLengths
    /\ steps \in 0..max_length
    /\ branch \in {"none", "history", "fallback", "stuck"}
    /\ notices \in 0..1

----------------------------------------------------------------------------
(* C1 (as amended): on the literal map with history_size = 3, whenever a   *)
(* key k is exactly the history context of the current Sequence (k has     *)
(* min(3, length of the Sequence) words and equals its trailing words),    *)
(* the iteration appends a member of k's candidate list and goes on.       *)
C1_KeyAsContextAppendsCandidate ==
    [][ (pc = "loop" /\ steps < max_length /\ Literal /\ history_size = 3) =>
        \A k \in DOMAIN training_data :
            ( /\ Len(k) = Min(3, Len(sequence))
              /\ Trail(sequence, Len(k)) = k )
            => /\ pc' = "loop"
               /\ \E i \in 1..Len(training_data[k]) :
                      sequence' = Append(sequence, training_data[k][i]) ]_vars

(* C1 as stated: every key k that equals the trailing len(k) words of the  *)
(* Sequence, 2-word keys under longer Sequences included, gets a member of *)
(* its candidate list appended.                                            *)
C1_AnyTrailingKeyAppendsCandidate ==
    [][ (pc = "loop" /\ steps < max_length /\ Literal /\ history_size = 3) =>
        \A k \in DOMAIN training_data :
            ( /\ Len(k) <= Len(sequence)
              /\ Trail(sequence, Len(k)) = k )
            => /\ pc' = "loop"
               /\ \E i \in 1..Len(training_data[k]) :
                      sequence' = Append(sequence, training_data[k][i]) ]_vars

\* a 3-word key under a longer Sequence has had one of its candidates appended
C1_Witness ==
    /\ Literal /\ history_size = 3 /\ pc = "loop"
    /\ steps = 1 /\ Len(sequence) = 5 /\ Len(Initial) = 4
    /\ Trail(Initial, 3) \in DOMAIN training_data
    /\ \E i \in 1..Len(training_data[Trail(Initial, 3)]) :
          sequence[5] = training_data[Trail(Initial, 3)][i]

----------------------------------------------------------------------------
(* C2: generate_text("Kitne aadmi", 5) on the literal map with             *)
(* history_size = 3 starts from [kitne, aadmi], appends "the?" on the key  *)
(* (kitne, aadmi), then one of Sardar / do / the. on the key               *)
(* (kitne, aadmi, the?), and at the third iteration misses both lookups:   *)
(* it ends stuck with exactly 2 words appended and one notice printed.     *)
C2_KitneAadmi ==
    (Literal /\ history_size = 3 /\ starting_text = Kitne_aadmi
        /\ max_length = DemoLength1) =>
    /\ pc \in {"loop", "break", "returned"}
    /\ steps <= 3
    /\ IsPrefix(<<kitne, aadmi>>, sequence)
    /\ steps = 0 => pc = "loop" /\ sequence = <<kitne, aadmi>>
    /\ steps = 1 => /\ pc = "loop"
                    /\ windows = << <<kitne, aadmi>> >>
                    /\ sequence = <<kitne, aadmi, the_q>>
    /\ steps >= 2 => /\ Len(sequence) = 4
                     /\ sequence[3] = the_q
                     /\ sequence[4] \in { <<"S","a","r","d","a","r">>,
                                          <<"d","o">>, <<"t","h","e",".">> }
    /\ steps = 2 => pc = "loop" /\ windows = << <<kitne, aadmi, the_q>> >>
    /\ steps = 3 => /\ pc \in {"break", "returned"}
                    /\ branch = "stuck"
                    /\ windows = << <<aadmi, the_q, sequence[4]>>,
                                    << sequence[4] >> >>
                    /\ notices = 1
    /\ steps < 3 => notices = 0
    /\ pc = "returned" => /\ steps = 3
                          /\ Appended = 2
                          /\ Appended < max_length
                          /\ output = Join(sequence)

C2_Witness ==
    /\ Literal /\ history_size = 3 /\ starting_text = Kitne_aadmi
    /\ max_length = DemoLength1 /\ pc = "returned" /\ notices = 1
    /\ sequence = <<kitne, aadmi, the_q, <<"t","h","e",".">> >>

----------------------------------------------------------------------------
(* C3: a call with max_length = 0, whatever the text and history_size,     *)
(* looks nothing up, appends nothing, prints no notice and returns the     *)
(* text lowercased, without '.' and '?', its words in their order joined   *)
(* by single spaces.                                                       *)

\* the text character by character: whitespace becomes a space, '.' and '?'
\* go, everything else is lowercased
Cleaned(text) ==
    LET keep == SelectSeq(text, LAMBDA c : c \notin {".", "?"}) IN
    [i \in 1..Len(keep) |->
        IF keep[i] \in Whitespace THEN " " ELSE LowerChar(keep[i])]

\* s without the spaces that begin it, end it or follow another space
RECURSIVE Squeezed(_, _)
Squeezed(s, i) ==
    IF i > Len(s) THEN <<>>
    ELSE IF s[i] # " "
              \/ ( /\ i > 1 /\ s[i-1] # " "
                   /\ \E j \in (i+1)..Len(s) : s[j] # " " )
         THEN <<s[i]>> \o Squeezed(s, i + 1)
         ELSE Squeezed(s, i + 1)

C3_ZeroStepsReturnsNormalizedText ==
    (InCall /\ max_length = 0) =>
    /\ pc \in {"loop", "returned"}
    /\ steps = 0
    /\ windows = <<>>
    /\ branch = "none"
    /\ notices = 0
    /\ Join(sequence) = Squeezed(Cleaned(starting_text), 1)
    /\ pc = "returned" => output = Squeezed(Cleaned(starting_text), 1)

\* mixed case, a tab, a dot and surrounding blanks, under every history_size
C3_Witness ==
    /\ pc = "returned" /\ max_length = 0
    /\ starting_text = <<" ","C","h","a","i","\t","G","a","r","a","m","."," "," ">>
    /\ output = <<"c","h","a","i"," ","g","a","r","a","m">>

----------------------------------------------------------------------------
(* C4 (as amended): a call that ends stuck raises nothing and returns the  *)
(* space-joined Sequence; that string is non-empty exactly when the        *)
(* normalized starting text has at least one word.                         *)
C4_StuckReturnsNormally ==
    /\ pc # "raised"
    /\ branch = "stuck" => pc \in {"break", "returned"}
    /\ (pc = "returned" /\ branch = "stuck") =>
          /\ output = Join(sequence)
          /\ (output # <<>>) <=> (Initial # <<>>)

(* C4 as stated: a call that ends stuck raises nothing and returns a       *)
(* non-empty string, for empty and punctuation-only text too.              *)
C4_StuckReturnsNonEmpty ==
    /\ pc # "raised"
    /\ branch = "stuck" => pc \in {"break", "returned"}
    /\ (pc = "returned" /\ branch = "stuck") => output # <<>>

\* both sides: a stuck call that returns words, and one that returns ""
C4_Witness ==
    /\ pc = "returned" /\ branch = "stuck"
    /\ starting_text = <<"."," ","?">> /\ output = <<>>

----------------------------------------------------------------------------
(* C5 (as amended): when no trailing window of the normalized starting     *)
(* text (the zero-word window of an empty text included) is a key and      *)
(* max_length >= 1, the call ends stuck at its first iteration: nothing is *)
(* appended and the notice is printed once.                                *)
AbsentAtEveryWindow(td, seq) ==
    \A n \in 0..Len(seq) : Trail(seq, n) \notin DOMAIN td

C5_UnknownTextStuckAtOnce ==
    (InCall /\ max_length >= 1
        /\ AbsentAtEveryWindow(self_training_data, Initial)) =>
    /\ pc \in {"loop", "break", "returned"}
    /\ sequence = Initial
    /\ pc = "loop" => steps = 0
    /\ pc \in {"break", "returned"} =>
          steps = 1 /\ branch = "stuck" /\ notices = 1
    /\ pc = "returned" => output = Join(Initial)

(* C5 as stated: the same for every max_length, 0 included.                *)
C5_UnknownTextStuckForEveryLength ==
    (pc = "returned" /\ AbsentAtEveryWindow(self_training_data, Initial)) =>
    /\ Appended = 0
    /\ branch = "stuck"
    /\ notices = 1

\* the empty text, stuck at the first of ten iterations
C5_Witness ==
    /\ pc = "returned" /\ starting_text = <<>> /\ max_length = DemoLength2
    /\ steps = 1 /\ notices = 1 /\ sequence = <<>>

----------------------------------------------------------------------------
(* C6: a call ends in exactly one of two ways.  Stuck: the iteration that  *)
(* broke found neither the history context nor the last word among the     *)
(* keys, printed the notice once, and fewer than max_length words were     *)
(* appended; from the break the only thing that happens is the return,     *)
(* with the Sequence as it was.  Exhausted: exactly max_length words were  *)
(* appended and no notice was printed.                                     *)
EndedStuck ==
    /\ branch = "stuck"
    /\ notices = 1
    /\ ~Known(self_training_data, Trail(sequence, Min(history_size, Len(sequence))))
    /\ ~Known(self_training_data, Trail(sequence, Min(1, Len(sequence))))
    /\ steps = Appended + 1
    /\ Appended < max_length

EndedExhausted ==
    /\ branch # "stuck"
    /\ notices = 0
    /\ steps = max_length
    /\ Appended = max_length

Outcome ==
    /\ pc # "raised"
    /\ pc = "break" => EndedStuck
    /\ pc = "returned" => (EndedStuck \/ EndedExhausted)
    /\ ~(EndedStuck /\ EndedExhausted)
    /\ pc = "loop" => (notices = 0 /\ branch # "stuck")

C6_TwoTerminalOutcomes ==
    [][ /\ Outcome
        /\ pc = "break" =>
            /\ pc' = "returned"
            /\ sequence' = sequence
            /\ steps' = steps
            /\ notices' = notices ]_vars

\* a call that used up three steps, all of them appending
C6_Witness ==
    /\ pc = "returned" /\ EndedExhausted /\ max_length = 3 /\ Appended = 3

----------------------------------------------------------------------------
(* C7: generate_text("Bade bade deshon mein", 10) on the literal map with  *)
(* history_size = 3 finds neither (bade, deshon, mein) nor (mein,) at its  *)
(* first iteration: it ends stuck with the notice printed, nothing         *)
(* appended, and returns "bade bade deshon mein".                          *)
C7_BadeBadeDeshonMein ==
    (Literal /\ history_size = 3 /\ starting_text = Bade_bade_deshon_mein
        /\ max_length = DemoLength2) =>
    /\ pc \in {"loop", "break", "returned"}
    /\ sequence = <<bade, bade, deshon, mein>>
    /\ pc = "loop" => steps = 0 /\ notices = 0
    /\ pc \in {"break", "returned"} =>
          /\ steps = 1
          /\ branch = "stuck"
          /\ notices = 1
          /\ windows = << <<bade, deshon, mein>>, <<mein>> >>
    /\ pc = "returned" =>
          output = <<"b","a","d","e"," ","b","a","d","e"," ",
                     "d","e","s","h","o","n"," ","m","e","i","n">>

C7_Witness ==
    /\ Literal /\ history_size = 3 /\ starting_text = Bade_bade_deshon_mein
    /\ max_length = DemoLength2 /\ pc = "returned" /\ notices = 1
    /\ Len(output) = 21

----------------------------------------------------------------------------
(* C8: an iteration looks up the trailing history_size words (all of the   *)
(* Sequence when it is shorter) and, only when that misses, the trailing   *)
(* single word, and nothing else.  So with history_size = 3 a Sequence of  *)
(* three or more words whose last two words are a key, but whose last      *)
(* three and last one are not, ends stuck with nothing appended.           *)
C8_OnlyTwoWindows ==
    [][ (pc = "loop" /\ steps < max_length) =>
        LET n == Len(sequence) IN
        /\ Len(windows') \in {1, 2}
        /\ windows'[1] = Trail(sequence, Min(history_size, n))
        /\ Len(windows') = 1 <=> Known(self_training_data, windows'[1])
        /\ Len(windows') = 2 => windows'[2] = Trail(sequence, Min(1, n))
        /\ ( /\ history_size = 3 /\ n >= 3
             /\ Known(self_training_data, Trail(sequence, 2))
             /\ ~Known(self_training_data, Trail(sequence, 3))
             /\ ~Known(self_training_data, Trail(sequence, 1)) )
           => /\ pc' = "break"
              /\ sequence' = sequence
              /\ notices' = notices + 1 ]_vars

\* a 2-word key under a 3-word Sequence, stuck at the first iteration
C8_Witness ==
    /\ history_size = 3 /\ pc = "break" /\ steps = 1 /\ Len(sequence) >= 3
    /\ Known(self_training_data, Trail(sequence, 2))
    /\ sequence = Initial

----------------------------------------------------------------------------
(* C9: during a call the Sequence changes only by one word being appended; *)
(* an iteration appends exactly one word or ends the loop; the normalized  *)
(* starting words stay in front; and always                                *)
(* appended words <= iterations <= max_length, the loop being left once    *)
(* max_length iterations are done.                                         *)
C9_SequenceOnlyGrows ==
    [][ /\ (pc \in {"loop", "break"}) =>
            /\ pc' \in {"loop", "break", "returned", "raised"}
            /\ \/ sequence' = sequence /\ pc' # "loop"
               \/ /\ Len(sequence') = Len(sequence) + 1
                  /\ SubSeq(sequence', 1, Len(sequence)) = sequence
                  /\ pc = "loop" /\ pc' = "loop"
                  /\ steps' = steps + 1
            /\ (pc = "loop" /\ steps >= max_length) => pc' = "returned"
        /\ InCall' =>
            /\ IsPrefix(Preprocess(starting_text'), sequence')
            /\ 0 <= Len(sequence') - Len(Preprocess(starting_text'))
            /\ Len(sequence') - Len(Preprocess(starting_text')) <= steps'
            /\ steps' <= max_length' ]_vars

\* ten words appended in ten iterations behind the starting words
C9_Witness ==
    /\ pc = "returned" /\ max_length = DemoLength2 /\ steps = DemoLength2
    /\ Appended = DemoLength2 /\ Len(Initial) >= 2

----------------------------------------------------------------------------
(* C10: the literal map has no 1-word key; with it and history_size = 3    *)
(* the fallback branch never appends, no call appends more than 2 words,   *)
(* and every call with max_length >= 3 ends stuck with the notice printed. *)
C10_LiteralMapStopsAfterTwo ==
    (Literal /\ history_size = 3) =>
    /\ \A k \in DOMAIN self_training_data : Len(k) # 1
    /\ branch # "fallback"
    /\ Appended <= 2
    /\ pc # "raised"
    /\ (pc = "returned" /\ max_length >= 3) =>
          /\ branch = "stuck"
          /\ notices = 1
          /\ steps <= 3

\* two words appended, then stuck at the third of three or more iterations
C10_Witness ==
    /\ Literal /\ history_size = 3 /\ pc = "returned" /\ max_length >= 3
    /\ Appended = 2 /\ steps = 3 /\ branch = "stuck" /\ Len(Initial) = 4
====
